---- MODULE Spec2Model ----
(***************************************************************************)
(* A model of main.py, the DJ Toggle experiment populator: the entry point *)
(* (credential check, SDK initialisation, close) and populate_experiments  *)
(* (the trial loop over the lead, bass and drums experiments, the periodic *)
(* and final flush, the report).  The feature-flag SDK client is the       *)
(* collaborator: what it answers is an input, what it is asked is counted. *)
(***************************************************************************)
EXTENDS Integers, Sequences, FiniteSets, TLC

(***************************************************************************)
(* Bounds of the model.                                                    *)
(***************************************************************************)
\* Trial counts 0..MaxIterations are explored by Spec.
MaxIterations == 2
\* Flush intervals 1..MaxFlushInterval are explored by Spec.
MaxFlushInterval == 2
\* uuid4 answers one of MaxUuid identities.
MaxUuid == 2
\* Trial counts 0..FlushScenarioIterations are explored by SpecFlush.
FlushScenarioIterations == 25
\* Trial counts 0..ABIterations are explored by SpecAB.
ABIterations == 5
\* Trial counts 0..SeededIterations are explored by SpecSeeded.
SeededIterations == 1

(***************************************************************************)
(* Configuration (main.py, lines 40-88).                                   *)
(***************************************************************************)
NUMBER_OF_ITERATIONS == 207
FLUSH_INTERVAL == 10
METRIC_NAME == "vote"

LEAD_FLAG == "leadArrangement"
BASS_FLAG == "bassArrangement"
DRUMS_FLAG == "drumArrangement"

LEAD_CONVERSION_RATES ==
    [banjo |-> 38, techno |-> 29, epiano |-> 28, organ |-> 27,
     original |-> 30, silence |-> 0]

BASS_CONVERSION_RATES ==
    [trance |-> 38, original |-> 29, tuba |-> 27, strings |-> 28, silence |-> 0]

DRUMS_CONVERSION_RATES ==
    [fourOnTheFloor |-> 38, original |-> 29, syncopated |-> 28, casio |-> 27,
     basicTick |-> 0]

\* The three experiment blocks of the loop body, in the order of the code.
Experiments == <<"lead", "bass", "drums">>

Blocks == 1..Len(Experiments)

\* The flag key each block passes to client.variation.
FlagKey(e) ==
    CASE e = "lead" -> LEAD_FLAG
      [] e = "bass" -> BASS_FLAG
      [] e = "drums" -> DRUMS_FLAG

Flags == {FlagKey(Experiments[b]) : b \in Blocks}

\* The rate table each block passes to get_conversion_rate.
ProgramRates ==
    [e \in {"lead", "bass", "drums"} |->
        CASE e = "lead" -> LEAD_CONVERSION_RATES
          [] e = "bass" -> BASS_CONVERSION_RATES
          [] e = "drums" -> DRUMS_CONVERSION_RATES]

\* The default passed to client.variation.
DefaultVariation == "original"

(***************************************************************************)
(* Inputs.                                                                 *)
(***************************************************************************)
\* os.environ.get("SDK_KEY"): unset, set to the empty string, or set.
NoKey == "<None>"
SdkKeys == {NoKey, "", "sdk-key"}

\* What uuid.uuid4() may answer.
Uuids == 1..MaxUuid

\* What random.randint(1, 100) may answer.
Draws == 1..100

\* The variations a flag serves, in the order of its variation list: among
\* them a winner, the default, an excluded name and names in no rate table.
Served(flag) ==
    CASE flag = LEAD_FLAG -> <<"banjo", "original", "theremin">>
      [] flag = BASS_FLAG -> <<"original", "silence">>
      [] flag = DRUMS_FLAG -> <<"fourOnTheFloor", "cowbell">>

\* The variation names the collaborator may answer for a flag.
ServedNames(flag) == {Served(flag)[n] : n \in 1..Len(Served(flag))}

\* The randint answers a seeded stream is made of in SpecSeeded: a draw every
\* positive rate converts on, one between the rates, one no rate converts on.
SeedDraws == {1, 30, 100}

\* The flush intervals SpecFlush explores beside the program's.
FlushScenarioIntervals == {3, FLUSH_INTERVAL}

VARIABLES
    sdkKey,         \* SDK_KEY
    iterations,     \* the configured trial count
    flushInterval,  \* the configured flush interval
    rates,          \* the conversion-rate table of each experiment
    rollout,        \* collaborator: flag key -> identity -> names it may answer
    seeded,         \* whether random was seeded before the run
    stream,         \* the randint answers a seeded random gives, in order
    pc,             \* position of the process
    initialized,    \* what is_initialized() answered
    i,              \* the loop variable of populate_experiments
    block,          \* which experiment block of the loop body is running
    context,        \* the identity of the current trial's context
    variation,      \* lead_variation, bass_variation, drums_variation
    rate,           \* lead_rate, bass_rate, drums_rate
    stats,          \* stats: experiment -> variation -> {total, converted}
    ndraws,         \* randint calls made so far
    calls,          \* calls received by the collaborator, by operation
    trialEvalIds,   \* identities passed to variation() in the current trial
    trialTrackIds,  \* identities passed to track() in the current trial
    trialTracks,    \* track() calls of the current trial
    ids,            \* identities created, in order (recorded in seeded runs)
    answered,       \* the names variation() has answered, by experiment
    errors,         \* diagnostics printed, by kind
    reported,       \* whether the results summary was printed
    exitStatus,     \* the process's exit status, -1 while it runs
    run,            \* 1 in the first run of the process, 2 in the second
    firstRun        \* what the first run ended with, once a second has begun

config == <<sdkKey, iterations, flushInterval, rates, rollout, seeded, stream>>

process == <<pc, initialized, i, block, context, variation, rate, stats, ndraws,
             calls, trialEvalIds, trialTrackIds, trialTracks, ids, answered,
             errors, reported, exitStatus>>

vars == <<config, process, run, firstRun>>

(***************************************************************************)
(* Helper functions (main.py, lines 95-119).                               *)
(***************************************************************************)
\* Variant: the comparison is strict.
should_convert_strict(conversion_rate, draw) == draw < conversion_rate

\* random.randint(1, 100) <= conversion_rate, for the randint answer `draw`.
should_convert(conversion_rate, draw) == draw <= conversion_rate

\* Variant: the seed is not applied, every call may answer any draw.
randint_unseeded(isSeeded, draws, n) == Draws

\* What random.randint(1, 100) may answer on its (n+1)-th call: any draw, or
\* the next of the stream when random is seeded.
randint(isSeeded, draws, n) == IF isSeeded THEN {draws[n + 1]} ELSE Draws

\* Variant: an unknown variation gets the default variation's rate.
get_conversion_rate_of_default(v, table) ==
    IF v \in DOMAIN table THEN table[v] ELSE table["original"]

\* rates.get(variation, 0)
get_conversion_rate(v, table) == IF v \in DOMAIN table THEN table[v] ELSE 0

\* The row a variation gets on its first observation.
NewRow == [total |-> 0, converted |-> 0]

\* Variant: the trial is counted only when the row is created.
CountTotalNewOnly(table, v) ==
    IF v \in DOMAIN table
    THEN table
    ELSE table @@ (v :> [total |-> 1, converted |-> 0])

\* Variant: the row is created anew on every observation.
CountTotalOverwrite(table, v) ==
    [u \in DOMAIN table \cup {v} |->
        IF u = v THEN [total |-> 1, converted |-> 0] ELSE table[u]]

\* Lines 167-169 (and 179-181, 191-193): create the row if absent, count the trial.
CountTotal(table, v) ==
    LET withRow == IF v \in DOMAIN table THEN table ELSE table @@ (v :> NewRow)
    IN  [withRow EXCEPT ![v].total = @ + 1]

\* Line 173 (and 185, 197): count the conversion.
CountConverted(table, v) == [table EXCEPT ![v].converted = @ + 1]

\* Variant: the interval is counted from the loop variable, not from i + 1.
FlushDueFromZero(idx, interval) == idx % interval = 0

\* Line 200: whether trial i is followed by a periodic flush.
FlushDue(idx, interval) == (idx + 1) % interval = 0

\* The empty dict.
EmptyDict == <<>>

\* Lines 133-137.
EmptyStats == [e \in {"lead", "bass", "drums"} |-> EmptyDict]

NoCalls ==
    [set_config |-> 0, is_initialized |-> 0, variation |-> 0, track |-> 0,
     flush |-> 0, close |-> 0]

NoErrors == [missing_key |-> 0, init_failed |-> 0]

(***************************************************************************)
(* The state a process starts in.                                          *)
(***************************************************************************)
AtStart ==
    [pc |-> "start",
     initialized |-> FALSE,
     i |-> -1,
     block |-> 1,
     context |-> 0,
     variation |-> [e \in {"lead", "bass", "drums"} |-> ""],
     rate |-> [e \in {"lead", "bass", "drums"} |-> 0],
     stats |-> EmptyStats,
     ndraws |-> 0,
     calls |-> NoCalls,
     trialEvalIds |-> {},
     trialTrackIds |-> {},
     trialTracks |-> 0,
     ids |-> <<>>,
     answered |-> [e \in {"lead", "bass", "drums"} |-> {}],
     errors |-> NoErrors,
     reported |-> FALSE,
     exitStatus |-> -1]

ProcessStart ==
    /\ pc = AtStart.pc
    /\ initialized = AtStart.initialized
    /\ i = AtStart.i
    /\ block = AtStart.block
    /\ context = AtStart.context
    /\ variation = AtStart.variation
    /\ rate = AtStart.rate
    /\ stats = AtStart.stats
    /\ ndraws = AtStart.ndraws
    /\ calls = AtStart.calls
    /\ trialEvalIds = AtStart.trialEvalIds
    /\ trialTrackIds = AtStart.trialTrackIds
    /\ trialTracks = AtStart.trialTracks
    /\ ids = AtStart.ids
    /\ answered = AtStart.answered
    /\ errors = AtStart.errors
    /\ reported = AtStart.reported
    /\ exitStatus = AtStart.exitStatus

\* A collaborator that may answer any served name, whatever the identity.
AnyRollout == [f \in Flags |-> [u \in Uuids |-> ServedNames(f)]]

\* Spec: any credential, small trial counts and flush intervals, the
\* program's rate tables, an unseeded random source.
Init ==
    /\ sdkKey \in SdkKeys
    /\ iterations \in 0..MaxIterations
    /\ flushInterval \in 1..MaxFlushInterval
    /\ rates = ProgramRates
    /\ rollout = AnyRollout
    /\ seeded = FALSE
    /\ stream = <<>>
    /\ run = 1
    /\ firstRun = <<>>
    /\ ProcessStart

(***************************************************************************)
(* Entry point (main.py, lines 242-261).                                   *)
(***************************************************************************)
\* Variant: `SDK_KEY is None`, the empty string passes.
KeyIsNone(k) == k = NoKey

\* `not SDK_KEY`: the variable is unset or empty.
KeyMissing(k) == k = NoKey \/ k = ""

\* Lines 244-247: without a credential, report and exit(1).
CheckKey ==
    /\ pc = "start"
    /\ IF KeyMissing(sdkKey)
       THEN /\ errors' = [errors EXCEPT !.missing_key = @ + 1]
            /\ exitStatus' = 1
            /\ pc' = "exited"
       ELSE /\ pc' = "set_config"
            /\ UNCHANGED <<errors, exitStatus>>
    /\ UNCHANGED <<config, answered, initialized, i, block, context, variation, rate, stats,
                   ndraws, calls, trialEvalIds, trialTrackIds, trialTracks, ids,
                   reported, run, firstRun>>

\* Line 250: ldclient.set_config(Config(SDK_KEY)).
SetConfig ==
    /\ pc = "set_config"
    /\ calls' = [calls EXCEPT !.set_config = @ + 1]
    /\ pc' = "is_initialized"
    /\ UNCHANGED <<config, answered, initialized, i, block, context, variation, rate, stats,
                   ndraws, trialEvalIds, trialTrackIds, trialTracks, ids, errors,
                   reported, exitStatus, run, firstRun>>

\* Variant: the answer of is_initialized() is reported but not acted on.
IsInitializedUnchecked ==
    /\ pc = "is_initialized"
    /\ \E ok \in BOOLEAN :
        /\ initialized' = ok
        /\ calls' = [calls EXCEPT !.is_initialized = @ + 1]
        /\ errors' = IF ok THEN errors ELSE [errors EXCEPT !.init_failed = @ + 1]
        /\ pc' = "populate"
    /\ UNCHANGED <<config, answered, i, block, context, variation, rate, stats, ndraws,
                   trialEvalIds, trialTrackIds, trialTracks, ids, reported,
                   exitStatus, run, firstRun>>

\* Lines 252-257: run the trials if the client is initialized, else report.
IsInitialized ==
    /\ pc = "is_initialized"
    /\ \E ok \in BOOLEAN :
        /\ initialized' = ok
        /\ calls' = [calls EXCEPT !.is_initialized = @ + 1]
        /\ IF ok
           THEN /\ pc' = "populate"
                /\ UNCHANGED errors
           ELSE /\ pc' = "close"
                /\ errors' = [errors EXCEPT !.init_failed = @ + 1]
    /\ UNCHANGED <<config, answered, i, block, context, variation, rate, stats, ndraws,
                   trialEvalIds, trialTrackIds, trialTracks, ids, reported,
                   exitStatus, run, firstRun>>

\* Lines 260-261: close the client; the script ends, exit status 0.
Close ==
    /\ pc = "close"
    /\ calls' = [calls EXCEPT !.close = @ + 1]
    /\ exitStatus' = 0
    /\ pc' = "done"
    /\ UNCHANGED <<config, answered, initialized, i, block, context, variation, rate, stats,
                   ndraws, trialEvalIds, trialTrackIds, trialTracks, ids, errors,
                   reported, run, firstRun>>

(***************************************************************************)
(* populate_experiments (main.py, lines 126-235).                          *)
(***************************************************************************)
\* Lines 133-157: the empty stats, the banner, the client.
Populate ==
    /\ pc = "populate"
    /\ stats' = EmptyStats
    /\ pc' = "for"
    /\ UNCHANGED <<config, answered, initialized, i, block, context, variation, rate, ndraws,
                   calls, trialEvalIds, trialTrackIds, trialTracks, ids, errors,
                   reported, exitStatus, run, firstRun>>

\* Lines 159-161: the next value of range(NUMBER_OF_ITERATIONS) and a fresh
\* context, or the end of the loop.
NextTrial ==
    /\ pc = "for"
    /\ IF i + 1 < iterations
       THEN \E u \in Uuids :
              /\ i' = i + 1
              /\ context' = u
              /\ ids' = IF seeded THEN Append(ids, u) ELSE ids
              /\ block' = 1
              /\ trialEvalIds' = {}
              /\ trialTrackIds' = {}
              /\ trialTracks' = 0
              /\ pc' = "variation"
       ELSE /\ pc' = "final_flush"
            /\ UNCHANGED <<i, context, ids, block, trialEvalIds, trialTrackIds,
                           trialTracks>>
    /\ UNCHANGED <<config, answered, initialized, variation, rate, stats, ndraws, calls,
                   errors, reported, exitStatus, run, firstRun>>

\* Lines 164-165 (176-177, 188-189): ask the collaborator for the variation,
\* look its rate up.
Variation ==
    /\ pc = "variation"
    /\ LET e == Experiments[block] IN
       \E v \in rollout[FlagKey(e)][context] :
          /\ variation' = [variation EXCEPT ![e] = v]
          /\ rate' = [rate EXCEPT ![e] = get_conversion_rate(v, rates[e])]
          /\ answered' = [answered EXCEPT ![e] = @ \cup {v}]
    /\ calls' = [calls EXCEPT !.variation = @ + 1]
    /\ trialEvalIds' = trialEvalIds \cup {context}
    /\ pc' = "total"
    /\ UNCHANGED <<config, initialized, i, block, context, stats, ndraws,
                   trialTrackIds, trialTracks, ids, errors, reported, exitStatus,
                   run, firstRun>>

\* Variant: every block keys its row by lead_variation.
TotalOfLeadVariation ==
    /\ pc = "total"
    /\ LET e == Experiments[block] IN
       stats' = [stats EXCEPT ![e] = CountTotal(@, variation[Experiments[1]])]
    /\ pc' = "should_convert"
    /\ UNCHANGED <<config, answered, initialized, i, block, context, variation, rate, ndraws,
                   calls, trialEvalIds, trialTrackIds, trialTracks, ids, errors,
                   reported, exitStatus, run, firstRun>>

\* Lines 167-169 (179-181, 191-193).
Total ==
    /\ pc = "total"
    /\ LET e == Experiments[block] IN
       stats' = [stats EXCEPT ![e] = CountTotal(@, variation[e])]
    /\ pc' = "should_convert"
    /\ UNCHANGED <<config, answered, initialized, i, block, context, variation, rate, ndraws,
                   calls, trialEvalIds, trialTrackIds, trialTracks, ids, errors,
                   reported, exitStatus, run, firstRun>>

\* Where the code goes after an experiment block: the next block, or line 200.
AfterBlock(b) == IF b < Len(Experiments) THEN "variation" ELSE "flush_check"

NextBlock(b) == IF b < Len(Experiments) THEN b + 1 ELSE b

\* Line 171 (183, 195): one randint(1, 100), the next of the stream when
\* random is seeded.
ShouldConvert ==
    /\ pc = "should_convert"
    /\ \E outcome \in {should_convert(rate[Experiments[block]], d) :
                            d \in randint(seeded, stream, ndraws)} :
           IF outcome
           THEN /\ pc' = "track"
                /\ UNCHANGED block
           ELSE /\ pc' = AfterBlock(block)
                /\ block' = NextBlock(block)
    /\ ndraws' = ndraws + 1
    /\ UNCHANGED <<config, answered, initialized, i, context, variation, rate, stats, calls,
                   trialEvalIds, trialTrackIds, trialTracks, ids, errors, reported,
                   exitStatus, run, firstRun>>

\* Variant: the event is tracked for a context created for it.
TrackFreshContext ==
    /\ pc = "track"
    /\ calls' = [calls EXCEPT !.track = @ + 1]
    /\ \E u \in Uuids : trialTrackIds' = trialTrackIds \cup {u}
    /\ trialTracks' = trialTracks + 1
    /\ pc' = "converted"
    /\ UNCHANGED <<config, answered, initialized, i, block, context, variation, rate, stats,
                   ndraws, trialEvalIds, ids, errors, reported, exitStatus, run,
                   firstRun>>

\* Line 172 (184, 196): client.track(METRIC_NAME, context).
Track ==
    /\ pc = "track"
    /\ calls' = [calls EXCEPT !.track = @ + 1]
    /\ trialTrackIds' = trialTrackIds \cup {context}
    /\ trialTracks' = trialTracks + 1
    /\ pc' = "converted"
    /\ UNCHANGED <<config, answered, initialized, i, block, context, variation, rate, stats,
                   ndraws, trialEvalIds, ids, errors, reported, exitStatus, run,
                   firstRun>>

\* Line 173 (185, 197).
Converted ==
    /\ pc = "converted"
    /\ LET e == Experiments[block] IN
       stats' = [stats EXCEPT ![e] = CountConverted(@, variation[e])]
    /\ pc' = AfterBlock(block)
    /\ block' = NextBlock(block)
    /\ UNCHANGED <<config, answered, initialized, i, context, variation, rate, ndraws, calls,
                   trialEvalIds, trialTrackIds, trialTracks, ids, errors, reported,
                   exitStatus, run, firstRun>>

\* Lines 200-209: the periodic flush, the progress line, the sleep.  The
\* draw of random_sleep decides only the length of the sleep.
FlushCheck ==
    /\ pc = "flush_check"
    /\ calls' = IF FlushDue(i, flushInterval)
                THEN [calls EXCEPT !.flush = @ + 1]
                ELSE calls
    /\ pc' = "for"
    /\ UNCHANGED <<config, answered, initialized, i, block, context, variation, rate, stats,
                   ndraws, trialEvalIds, trialTrackIds, trialTracks, ids, errors,
                   reported, exitStatus, run, firstRun>>

\* Lines 216-219: the final flush.
FinalFlush ==
    /\ pc = "final_flush"
    /\ calls' = [calls EXCEPT !.flush = @ + 1]
    /\ pc' = "report"
    /\ UNCHANGED <<config, answered, initialized, i, block, context, variation, rate, stats,
                   ndraws, trialEvalIds, trialTrackIds, trialTracks, ids, errors,
                   reported, exitStatus, run, firstRun>>

\* Lines 221-235: print the summary; populate_experiments returns.
Report ==
    /\ pc = "report"
    /\ reported' = TRUE
    /\ pc' = "close"
    /\ UNCHANGED <<config, answered, initialized, i, block, context, variation, rate, stats,
                   ndraws, calls, trialEvalIds, trialTrackIds, trialTracks, ids,
                   errors, exitStatus, run, firstRun>>

Next ==
    \/ CheckKey
    \/ SetConfig
    \/ IsInitialized
    \/ Populate
    \/ NextTrial
    \/ Variation
    \/ Total
    \/ ShouldConvert
    \/ Track
    \/ Converted
    \/ FlushCheck
    \/ FinalFlush
    \/ Report
    \/ Close

Spec == Init /\ [][Next]_vars

(***************************************************************************)
(* SpecFlush: the flush schedule over longer runs, the program's own 207   *)
(* trials at interval 10 among them, with a collaborator whose flags serve *)
(* one variation each.                                                     *)
(***************************************************************************)
SingleRollout ==
    [f \in Flags |-> [u \in Uuids |->
        CASE f = LEAD_FLAG -> {"banjo"}
          [] f = BASS_FLAG -> {"silence"}
          [] f = DRUMS_FLAG -> {"basicTick"}]]

InitFlush ==
    /\ sdkKey = "sdk-key"
    /\ \/ /\ iterations \in 0..FlushScenarioIterations
          /\ flushInterval \in FlushScenarioIntervals
       \/ /\ iterations = NUMBER_OF_ITERATIONS
          /\ flushInterval = FLUSH_INTERVAL
    /\ rates = ProgramRates
    /\ rollout = SingleRollout
    /\ seeded = FALSE
    /\ stream = <<>>
    /\ run = 1
    /\ firstRun = <<>>
    /\ ProcessStart

SpecFlush == InitFlush /\ [][Next]_vars

(***************************************************************************)
(* SpecAB: every experiment configured with the table {A: 100, B: 0}, the  *)
(* collaborator answering A or B as it likes.                              *)
(***************************************************************************)
ABTable == [A |-> 100, B |-> 0]

ABRates == [e \in {"lead", "bass", "drums"} |-> ABTable]

ABRollout == [f \in Flags |-> [u \in Uuids |-> {"A", "B"}]]

InitAB ==
    /\ sdkKey = "sdk-key"
    /\ iterations \in 0..ABIterations
    /\ flushInterval = FLUSH_INTERVAL
    /\ rates = ABRates
    /\ rollout = ABRollout
    /\ seeded = FALSE
    /\ stream = <<>>
    /\ run = 1
    /\ firstRun = <<>>
    /\ ProcessStart

SpecAB == InitAB /\ [][Next]_vars

(***************************************************************************)
(* SpecSeeded: the process run twice with the same configuration and the   *)
(* same seed.  random.randint answers the same stream in both runs; the    *)
(* collaborator's answer is a fixed function of the flag key and the       *)
(* identity; uuid.uuid4 (line 97) does not read the seeded random source.  *)
(* random_sleep draws from the stream once per trial in both runs, so the  *)
(* randint calls of the two runs meet the stream at the same places.       *)
(***************************************************************************)
\* The variation a flag serves to an identity under a bucketing salt.
Bucket(flag, u, salt) == Served(flag)[((u + salt) % Len(Served(flag))) + 1]

FixedRollouts ==
    {[f \in Flags |-> [u \in Uuids |-> {Bucket(f, u, salt)}]] : salt \in 0..1}

InitSeeded ==
    /\ sdkKey = "sdk-key"
    /\ iterations \in 0..SeededIterations
    /\ flushInterval = FLUSH_INTERVAL
    /\ rates = ProgramRates
    /\ rollout \in FixedRollouts
    /\ seeded = TRUE
    /\ stream \in [1..(Len(Experiments) * iterations) -> SeedDraws]
    /\ run = 1
    /\ firstRun = <<>>
    /\ ProcessStart

\* What a finished run leaves to compare the next with.
Outcome ==
    [initialized |-> initialized, stats |-> stats, tracked |-> calls.track,
     ids |-> ids]

\* The process is started a second time: same configuration, same seed.
Rerun ==
    /\ pc = "done"
    /\ run = 1
    /\ run' = 2
    /\ firstRun' = <<Outcome>>
    /\ pc' = AtStart.pc
    /\ initialized' = AtStart.initialized
    /\ i' = AtStart.i
    /\ block' = AtStart.block
    /\ context' = AtStart.context
    /\ variation' = AtStart.variation
    /\ rate' = AtStart.rate
    /\ stats' = AtStart.stats
    /\ ndraws' = AtStart.ndraws
    /\ calls' = AtStart.calls
    /\ trialEvalIds' = AtStart.trialEvalIds
    /\ trialTrackIds' = AtStart.trialTrackIds
    /\ trialTracks' = AtStart.trialTracks
    /\ ids' = AtStart.ids
    /\ answered' = AtStart.answered
    /\ errors' = AtStart.errors
    /\ reported' = AtStart.reported
    /\ exitStatus' = AtStart.exitStatus
    /\ UNCHANGED config

NextSeeded == Next \/ Rerun

SpecSeeded == InitSeeded /\ [][NextSeeded]_vars

(***************************************************************************)
(* Properties.                                                             *)
(***************************************************************************)
ExperimentNames == {Experiments[b] : b \in Blocks}

\* The experiment whose block is running.
Current == Experiments[block]

\* Positions inside an experiment block of a trial.
BlockPcs == {"variation", "total", "should_convert", "track", "converted"}

\* Positions after the loop of populate_experiments.
AfterLoopPcs == {"final_flush", "report", "close", "done"}

RECURSIVE SumOf(_, _, _)
SumOf(table, names, field) ==
    IF names = {}
    THEN 0
    ELSE LET v == CHOOSE x \in names : TRUE
         IN  table[v][field] + SumOf(table, names \ {v}, field)

SumTotal(e) == SumOf(stats[e], DOMAIN stats[e], "total")

SumConverted(e) == SumOf(stats[e], DOMAIN stats[e], "converted")

\* The row of a variation, the zero row if it has none.
Row(e, v) == IF v \in DOMAIN stats[e] THEN stats[e][v] ELSE NewRow

\* C1: in every state, inside a trial or between trials, every aggregate row
\* of every experiment has converted <= total.
ConvertedAtMostTotal ==
    \A e \in ExperimentNames : \A v \in DOMAIN stats[e] :
        stats[e][v].converted <= stats[e][v].total

\* C1 witness: inside a trial, after track and before the converted
\* increment, on a row that an earlier trial already converted on.
InsideTrialAfterTotal ==
    /\ pc = "converted"
    /\ i = 1
    /\ Row(Current, variation[Current]).total = 2
    /\ Row(Current, variation[Current]).converted = 1

\* The number of trials experiment block b has counted so far.
TrialsCounted(b) ==
    IF pc \in BlockPcs
    THEN IF b < block \/ (b = block /\ pc \notin {"variation", "total"})
         THEN i + 1
         ELSE i
    ELSE i + 1

\* C2: the totals of an experiment's rows sum to the number of trials that
\* have evaluated it; after the loop that is the configured trial count.
TotalsSumToTrials ==
    \A b \in Blocks :
        /\ SumTotal(Experiments[b]) = TrialsCounted(b)
        /\ (pc \in AfterLoopPcs /\ initialized)
              => SumTotal(Experiments[b]) = iterations

\* C2 witness: a full run of two trials in which the lead experiment saw a
\* configured variation and one that is in no rate table.
FullRunMixedVariations ==
    /\ pc = "done"
    /\ initialized
    /\ iterations = 2
    /\ DOMAIN stats["lead"] = {"banjo", "theremin"}
    /\ "original" \in DOMAIN stats["bass"]

\* C3: after k trials the collaborator has been flushed k \div F times; the
\* final flush comes after the last trial and before the report, so a full
\* run flushes N \div F + 1 times: 3 times for N = 25, F = 10.
FlushSchedule ==
    /\ (pc \in BlockPcs \cup {"flush_check"}) => calls.flush = i \div flushInterval
    /\ pc = "for" => calls.flush = (i + 1) \div flushInterval
    /\ pc = "final_flush" =>
          /\ i + 1 = iterations
          /\ ~reported
          /\ calls.flush = iterations \div flushInterval
    /\ (pc \in {"report", "close", "done"} /\ initialized) =>
          calls.flush = (iterations \div flushInterval) + 1
    /\ reported => calls.flush = (iterations \div flushInterval) + 1
    /\ (pc = "done" /\ initialized /\ iterations = 25 /\ flushInterval = 10) =>
          calls.flush = 3
    /\ (pc = "done" /\ initialized /\ iterations = NUMBER_OF_ITERATIONS
           /\ flushInterval = FLUSH_INTERVAL) =>
          calls.flush = 21

\* C3 witness: a full run of 25 trials at flush interval 10, with
\* conversions, ended with 3 flushes.
FlushScenarioDone ==
    /\ pc = "done"
    /\ iterations = 25
    /\ flushInterval = 10
    /\ calls.flush = 3
    /\ calls.track > 0
    /\ calls.track < 25

\* C4: a variation name that is not a key of the experiment's rate table has
\* rate 0, its row never has a conversion, and no track call is made for it.
UnknownNeverConverts ==
    /\ \A e \in ExperimentNames : \A v \in answered[e] \ DOMAIN rates[e] :
          /\ get_conversion_rate(v, rates[e]) = 0
          /\ Row(e, v).converted = 0
    /\ (pc \in {"total", "should_convert"} /\ variation[Current] \notin DOMAIN rates[Current])
          => rate[Current] = 0
    /\ pc \in {"track", "converted"} => variation[Current] \in DOMAIN rates[Current]

\* C4 witness: the row of an unknown name has grown to two trials.
UnknownRowGrown ==
    /\ pc = "done"
    /\ "theremin" \notin DOMAIN rates["lead"]
    /\ Row("lead", "theremin").total = 2
    /\ calls.track > 0

\* is_initialized() has answered that the client is not initialized.
InitFailed == sdkKey \notin {NoKey, ""} /\ calls.is_initialized > 0 /\ ~initialized

\* C5: when the client is not initialized no trial runs: no variation, track
\* or flush call, no row, no report; the failure is reported once,
\* is_initialized is asked once, the client is closed once, exit status 0.
InitFailureRunsNoTrial ==
    InitFailed =>
        /\ calls.variation = 0 /\ calls.track = 0 /\ calls.flush = 0
        /\ stats = EmptyStats
        /\ i = -1
        /\ ~reported
        /\ errors.init_failed = 1
        /\ calls.is_initialized = 1
        /\ pc \in {"close", "done"}
        /\ pc = "close" => calls.close = 0 /\ exitStatus = -1
        /\ pc = "done" => calls.close = 1 /\ exitStatus = 0

\* C5 witness: the process has ended after a failed initialisation.
InitFailureDone ==
    /\ InitFailed
    /\ pc = "done"
    /\ calls.close = 1
    /\ iterations > 0

\* C6: without a credential (unset or empty) the process exits with status 1
\* and the collaborator is never called; with one, the exit status is 0.
MissingKeyExitsBeforeContact ==
    /\ sdkKey \in {NoKey, ""} =>
          /\ calls = NoCalls
          /\ pc \in {"start", "exited"}
          /\ pc = "exited" => exitStatus = 1 /\ errors.missing_key = 1
    /\ sdkKey \notin {NoKey, ""} =>
          /\ exitStatus \in {-1, 0}
          /\ pc = "done" => exitStatus = 0
          /\ pc # "exited"
          /\ errors.missing_key = 0
    /\ exitStatus = -1 <=> pc \notin {"exited", "done"}

\* C6 witness: the process has exited with status 1 on an empty credential.
EmptyKeyExited ==
    /\ sdkKey = ""
    /\ pc = "exited"
    /\ exitStatus = 1

\* C7 as claimed: the names that have a row are among the experiment's
\* configured names and the default "original".
RowsWithinConfigured ==
    \A e \in ExperimentNames :
        DOMAIN stats[e] \subseteq DOMAIN rates[e] \cup {DefaultVariation}

\* C7 as amended: the names that have a row are names the collaborator has
\* answered for that experiment's flag, and every answered name has a row
\* once its trial is counted.
RowsWithinAnswered ==
    \A e \in ExperimentNames :
        /\ DOMAIN stats[e] \subseteq answered[e]
        /\ answered[e] \ DOMAIN stats[e] \subseteq
              (IF pc = "total" /\ e = Current THEN {variation[e]} ELSE {})

\* C7 witness: a name outside the rate table was answered and has a row.
UnconfiguredRow ==
    /\ "theremin" \in DOMAIN stats["lead"]
    /\ "cowbell" \in DOMAIN stats["drums"]
    /\ "cowbell" \notin DOMAIN rates["drums"] \cup {DefaultVariation}
    /\ pc = "done"

\* Both runs of the process ran their trials to the end.
BothRunsDone ==
    /\ run = 2
    /\ pc = "done"
    /\ initialized
    /\ firstRun[1].initialized

\* The two runs ended with the same aggregate table and event count.
SameOutcome ==
    /\ stats = firstRun[1].stats
    /\ calls.track = firstRun[1].tracked

ABScenario ==
    /\ \A d \in Draws :
          should_convert(ABTable["A"], d) /\ ~should_convert(ABTable["B"], d)
    /\ \A e \in ExperimentNames :
          /\ Row(e, "B").converted = 0
          /\ Row(e, "A").converted =
                Row(e, "A").total -
                   (IF /\ e = Current
                       /\ pc \in {"should_convert", "track", "converted"}
                       /\ variation[e] = "A"
                    THEN 1 ELSE 0)
          /\ (pc \in AfterLoopPcs /\ initialized) =>
                /\ Row(e, "A").total + Row(e, "B").total = iterations
                /\ Row(e, "A").converted = Row(e, "A").total

\* C9 witness: a full run in which the lead experiment saw both A and B.
ABRunDone ==
    /\ pc = "done"
    /\ iterations = ABIterations
    /\ Row("lead", "A").total >= 1
    /\ Row("lead", "B").total >= 1
    /\ Row("lead", "A").converted = Row("lead", "A").total

\* C10: the track calls made so far are as many as the conversions counted
\* in all rows (one more between a track call and its increment); a trial
\* makes at most three, all for the identity of its three evaluations.
TracksMatchConversions ==
    /\ calls.track =
          SumConverted("lead") + SumConverted("bass") + SumConverted("drums")
             + (IF pc = "converted" THEN 1 ELSE 0)
    /\ trialTracks \in 0..3
    /\ trialTracks <= calls.track
    /\ trialTrackIds \subseteq {context}
    /\ trialTrackIds = {} <=> trialTracks = 0
    /\ trialEvalIds \subseteq {context}
    /\ pc = "flush_check" =>
          /\ trialEvalIds = {context}
          /\ calls.variation = 3 * (i + 1)

\* C10 witness: the second trial ended with three conversions, after a first
\* trial with one.
TrialWithThreeEvents ==
    /\ pc = "flush_check"
    /\ i = 1
    /\ trialTracks = 3
    /\ calls.track = 4

====
